---- MODULE Spec2Model ----
(***************************************************************************)
(* Model of the Atlas diff manager (src/src/main/diffManager.js): the      *)
(* snapshot store, the pending-change map, the line diff (generateDiff /   *)
(* computeLCS) and the accept / revert operations.                         *)
(*                                                                         *)
(* A text is a sequence of one-character strings; "\n" is the line         *)
(* separator, as in String.prototype.split('\n').                          *)
(***************************************************************************)
EXTENDS Integers, Sequences, FiniteSets, TLC

\* ------------------------------------------------------------------ bounds
\* longest text (in lines) the diff specification draws its inputs from
MaxLines == 3
\* longest file (in lines) an editor writes in the file-tracking specification
MaxFileLines == 1
\* largest hunk index a revert-hunk request carries
MaxHunkIndex == 1

NL == "\n"

\* line contents of the diff specification's inputs
DiffLineSet == { <<"a">>, <<"b">>, <<"c">>, <<"x">> }
\* the empty text, a lone separator and a text ending in a separator
EdgeTexts == { << >>, << NL >>, << "a", NL >> }
\* line contents an editor writes
FileLineSet == { <<"a">>, <<"b">> }

\* ------------------------------------------------------------ text helpers
Max(a, b) == IF a > b THEN a ELSE b

\* String.prototype.split('\n'): always at least one (possibly empty) line
RECURSIVE Split(_)
Split(s) ==
  IF \A i \in 1..Len(s) : s[i] # NL
    THEN << s >>
    ELSE LET k == CHOOSE i \in 1..Len(s) :
                    s[i] = NL /\ \A j \in 1..(i - 1) : s[j] # NL
         IN  << SubSeq(s, 1, k - 1) >> \o Split(SubSeq(s, k + 1, Len(s)))

\* Array.prototype.join('\n'): the text whose lines are the given ones
RECURSIVE Join(_)
Join(lines) ==
  IF Len(lines) = 0 THEN << >>
  ELSE IF Len(lines) = 1 THEN lines[1]
  ELSE lines[1] \o << NL >> \o Join(Tail(lines))

\* the contents of a list of diff lines
Contents(ls) == [i \in 1..Len(ls) |-> ls[i].content]

\* all sequences over S of length lo..hi
SeqsOf(S, lo, hi) == UNION { [1..n -> S] : n \in lo..hi }

\* -------------------------------------------------------------- computeLCS
\* One row of the LCS table: row[j + 1] is dp[i][j], prev[j + 1] is dp[i - 1][j].
RECURSIVE FillRow(_, _, _, _, _)
FillRow(oldLines, newLines, i, prev, row) ==
  LET j == Len(row)
  IN  IF j > Len(newLines) THEN row
      ELSE FillRow(oldLines, newLines, i, prev,
                   Append(row, IF oldLines[i] = newLines[j]
                                 THEN prev[j] + 1
                                 ELSE Max(prev[j + 1], row[j])))

\* The LCS table: dp[i + 1][j + 1] is the code's dp[i][j].
RECURSIVE FillTable(_, _, _)
FillTable(oldLines, newLines, dp) ==
  LET i == Len(dp)
  IN  IF i > Len(oldLines) THEN dp
      ELSE FillTable(oldLines, newLines,
                     Append(dp, FillRow(oldLines, newLines, i, dp[i], << 0 >>)))

LCSTable(oldLines, newLines) ==
  FillTable(oldLines, newLines, << [j \in 1..(Len(newLines) + 1) |-> 0] >>)

\* Backtrack that always steps j-- on lines that differ, without the table
RECURSIVE BacktrackLeftOnly(_, _, _, _, _, _)
BacktrackLeftOnly(oldLines, newLines, dp, i, j, matches) ==
  IF ~(i > 0 /\ j > 0) THEN matches
  ELSE IF oldLines[i] = newLines[j]
    THEN BacktrackLeftOnly(oldLines, newLines, dp, i - 1, j - 1,
                           << [oldIdx |-> i - 1, newIdx |-> j - 1] >> \o matches)
    ELSE BacktrackLeftOnly(oldLines, newLines, dp, i, j - 1, matches)

\* The backtracking loop; i, j are the code's i, j and matches grows at the
\* front (unshift).  Indices in the matches are 0-based as in the code.
RECURSIVE Backtrack(_, _, _, _, _, _)
Backtrack(oldLines, newLines, dp, i, j, matches) ==
  IF ~(i > 0 /\ j > 0) THEN matches
  ELSE IF oldLines[i] = newLines[j]
    THEN Backtrack(oldLines, newLines, dp, i - 1, j - 1,
                   << [oldIdx |-> i - 1, newIdx |-> j - 1] >> \o matches)
  ELSE IF dp[i][j + 1] > dp[i + 1][j]
    THEN Backtrack(oldLines, newLines, dp, i - 1, j, matches)
    ELSE Backtrack(oldLines, newLines, dp, i, j - 1, matches)

\* computeLCS with the loop `while (i > 1 && j > 1)`: the first lines never match
computeLCSSkipFirst(oldLines, newLines) ==
  SelectSeq(Backtrack(oldLines, newLines, LCSTable(oldLines, newLines),
                      Len(oldLines), Len(newLines), << >>),
            LAMBDA mt : mt.oldIdx > 0 /\ mt.newIdx > 0)

computeLCS(oldLines, newLines) ==
  Backtrack(oldLines, newLines, LCSTable(oldLines, newLines),
            Len(oldLines), Len(newLines), << >>)

\* ------------------------------------------------------------ generateDiff
\* The loop state of generateDiff is a record st: oldIdx, newIdx (0-based),
\* currentHunk (<< >> is null, << h >> is the open hunk h) and the hunks
\* pushed so far.

\* RemoveLine numbering the line by its 0-based index
RemoveLineZeroBased(oldLines, oldIdx) ==
  [type |-> "remove", content |-> oldLines[oldIdx + 1], lineNum |-> oldIdx]

RemoveLine(oldLines, oldIdx) ==
  [type |-> "remove", content |-> oldLines[oldIdx + 1], lineNum |-> oldIdx + 1]

\* AddLine numbering the line by its 0-based index
AddLineZeroBased(newLines, newIdx) ==
  [type |-> "add", content |-> newLines[newIdx + 1], lineNum |-> newIdx]

AddLine(newLines, newIdx) ==
  [type |-> "add", content |-> newLines[newIdx + 1], lineNum |-> newIdx + 1]

\* PushLine opening the hunk at the 0-based old index
PushLineStartZeroBased(st, line) ==
  LET h == IF st.currentHunk = << >>
             THEN [startOld |-> st.oldIdx, startNew |-> st.newIdx + 1,
                   lines |-> << >>]
             ELSE st.currentHunk[1]
  IN  << [h EXCEPT !.lines = Append(@, line)] >>

\* if (!currentHunk) currentHunk = {...}; currentHunk.lines.push(line)
PushLine(st, line) ==
  LET h == IF st.currentHunk = << >>
             THEN [startOld |-> st.oldIdx + 1, startNew |-> st.newIdx + 1,
                   lines |-> << >>]
             ELSE st.currentHunk[1]
  IN  << [h EXCEPT !.lines = Append(@, line)] >>

\* while (oldIdx < match.oldIdx) { push remove; oldIdx++ }
RECURSIVE RemoveUntil(_, _, _)
RemoveUntil(oldLines, st, limit) ==
  IF st.oldIdx < limit
    THEN RemoveUntil(oldLines,
           [st EXCEPT !.currentHunk = PushLine(st, RemoveLine(oldLines, st.oldIdx)),
                      !.oldIdx = @ + 1],
           limit)
    ELSE st

\* while (newIdx < match.newIdx) { push add; newIdx++ }
RECURSIVE AddUntil(_, _, _)
AddUntil(newLines, st, limit) ==
  IF st.newIdx < limit
    THEN AddUntil(newLines,
           [st EXCEPT !.currentHunk = PushLine(st, AddLine(newLines, st.newIdx)),
                      !.newIdx = @ + 1],
           limit)
    ELSE st

\* CloseHunk that pushes the hunk but forgets `currentHunk = null`
CloseHunkKeepOpen(st) ==
  IF st.currentHunk # << >> /\ Len(st.currentHunk[1].lines) > 0
    THEN [st EXCEPT !.hunks = Append(@, st.currentHunk[1])]
    ELSE st

\* if (currentHunk && currentHunk.lines.length > 0) { hunks.push; currentHunk = null }
CloseHunk(st) ==
  IF st.currentHunk # << >> /\ Len(st.currentHunk[1].lines) > 0
    THEN [st EXCEPT !.hunks = Append(@, st.currentHunk[1]), !.currentHunk = << >>]
    ELSE st

\* ForEachMatch that leaves the hunk open when it reaches a match
RECURSIVE ForEachMatchNoClose(_, _, _, _)
ForEachMatchNoClose(oldLines, newLines, lcs, st) ==
  IF lcs = << >> THEN st
  ELSE LET match == Head(lcs)
           s1 == RemoveUntil(oldLines, st, match.oldIdx)
           s2 == AddUntil(newLines, s1, match.newIdx)
       IN  ForEachMatchNoClose(oldLines, newLines, Tail(lcs),
                               [s2 EXCEPT !.oldIdx = @ + 1, !.newIdx = @ + 1])

\* the body of `for (const match of lcs)`
RECURSIVE ForEachMatch(_, _, _, _)
ForEachMatch(oldLines, newLines, lcs, st) ==
  IF lcs = << >> THEN st
  ELSE LET match == Head(lcs)
           s1 == RemoveUntil(oldLines, st, match.oldIdx)
           s2 == AddUntil(newLines, s1, match.newIdx)
           s3 == CloseHunk(s2)
       IN  ForEachMatch(oldLines, newLines, Tail(lcs),
                        [s3 EXCEPT !.oldIdx = @ + 1, !.newIdx = @ + 1])

\* "Handle remaining lines": one remove and one add per iteration
RECURSIVE Remaining(_, _, _)
Remaining(oldLines, newLines, st) ==
  IF st.oldIdx < Len(oldLines) \/ st.newIdx < Len(newLines)
    THEN LET s0 == IF st.currentHunk = << >>
                     THEN [st EXCEPT !.currentHunk =
                             << [startOld |-> st.oldIdx + 1,
                                 startNew |-> st.newIdx + 1, lines |-> << >>] >>]
                     ELSE st
             s1 == IF s0.oldIdx < Len(oldLines)
                     THEN [s0 EXCEPT !.currentHunk = PushLine(s0, RemoveLine(oldLines, s0.oldIdx)),
                                     !.oldIdx = @ + 1]
                     ELSE s0
             s2 == IF s1.newIdx < Len(newLines)
                     THEN [s1 EXCEPT !.currentHunk = PushLine(s1, AddLine(newLines, s1.newIdx)),
                                     !.newIdx = @ + 1]
                     ELSE s1
         IN  Remaining(oldLines, newLines, s2)
    ELSE st

DiffOfLines(oldLines, newLines, lcs) ==
  LET st0 == [oldIdx |-> 0, newIdx |-> 0, currentHunk |-> << >>, hunks |-> << >>]
      st1 == ForEachMatch(oldLines, newLines, lcs, st0)
      st2 == Remaining(oldLines, newLines, st1)
  IN  CloseHunk(st2).hunks

generateDiff(oldContent, newContent) ==
  LET oldLines == Split(oldContent)
      newLines == Split(newContent)
  IN  DiffOfLines(oldLines, newLines, computeLCS(oldLines, newLines))

\* ---------------------------------------------------------------- paths
\* Paths and file names are character sequences, "/" separates segments.
Sep == "/"

\* does text s hold pat at position i
MatchAt(s, pat, i) ==
  /\ i >= 1
  /\ i + Len(pat) - 1 <= Len(s)
  /\ SubSeq(s, i, i + Len(pat) - 1) = pat

Contains(s, pat) == \E i \in 1..(Len(s) + 1) : MatchAt(s, pat, i)
EndsWith(s, pat) == MatchAt(s, pat, Len(s) - Len(pat) + 1)

\* the ignore patterns: << kind, literal >>, kind "in" for /lit/, "end" for /lit$/
ignorePatterns ==
  << << "in",  << "n","o","d","e","_","m","o","d","u","l","e","s" >> >>,
     << "in",  << ".","g","i","t" >> >>,
     << "in",  << ".","D","S","_","S","t","o","r","e" >> >>,
     << "end", << ".","s","w","p" >> >>,
     << "end", << "~" >> >>,
     << "end", << ".","l","o","c","k" >> >>,
     << "end", << "p","a","c","k","a","g","e","-","l","o","c","k",".","j","s","o","n" >> >>,
     << "end", << "y","a","r","n",".","l","o","c","k" >> >>,
     << "end", << ".","l","o","g" >> >>,
     << "in",  << "d","i","s","t","/" >> >>,
     << "in",  << "b","u","i","l","d","/" >> >>,
     << "in",  << ".","a","t","l","a","s","/" >> >> >>

shouldIgnoreFile(filename) ==
  \E n \in 1..Len(ignorePatterns) :
    IF ignorePatterns[n][1] = "in"
      THEN Contains(filename, ignorePatterns[n][2])
      ELSE EndsWith(filename, ignorePatterns[n][2])

\* path.join(projectPath, filename)
PathJoin(dir, filename) == dir \o << Sep >> \o filename

\* path.basename(filePath)
RECURSIVE Basename(_)
Basename(filePath) ==
  IF \A i \in 1..Len(filePath) : filePath[i] # Sep THEN filePath
  ELSE Basename(Tail(filePath))

\* the project directory and the files an editor works on in it
ProjectPath == << "p" >>
FileNames == { << "f" >>, << "g" >> }
FilePaths == { PathJoin(ProjectPath, n) : n \in FileNames }

\* a text that puts a line in front of the text "a"
FrontText == << "b", NL, "a" >>

\* the contents an editor writes
FileTexts == { Join(ls) : ls \in SeqsOf(FileLineSet, 1, MaxFileLines) } \cup { FrontText }

\* the two contents of the two-file specification
PairTexts == { << "a" >>, FrontText }

\* fs.statSync(filePath).size limit of handleFileChange
MaxFileSize == 1048576

\* one element of a text that stands for a run of MaxFileSize bytes without a
\* line break
Filler == "#x1048576"

\* fs.statSync(filePath).size of a file with the given content
RECURSIVE FileSize(_)
FileSize(content) ==
  IF content = << >> THEN 0
  ELSE (IF Head(content) = Filler THEN MaxFileSize ELSE 1) + FileSize(Tail(content))

\* a file of exactly MaxFileSize bytes, and files one byte larger
AtLimit == << Filler >>
OverLimit == << Filler, "a" >>
OverLimitEdited == << Filler, "b" >>

\* a second project directory, and the directories that exist
OtherProject == << "r" >>
Directories == { ProjectPath, OtherProject }

\* filePath lies in the directory root; its name relative to root
Under(root, filePath) ==
  /\ Len(filePath) > Len(root) + 1
  /\ SubSeq(filePath, 1, Len(root) + 1) = root \o << Sep >>
Relative(root, filePath) == SubSeq(filePath, Len(root) + 2, Len(filePath))

\* error messages of a failing fs.writeFileSync; "" is a write that succeeds
WriteErrors == { "EACCES: permission denied" }

\* ---------------------------------------------------------------- state
VARIABLES
  disk,            \* the file system: path -> content, for the files that exist
  fileSnapshots,   \* Map path -> content
  pendingChanges,  \* Map path -> change, in insertion order: << [key, value], ... >>
  fileWatchers,    \* Map projectPath -> watcher: the set of watched directories
  events,          \* file names with a 'change' event queued by fs.watch
  mainWindow,      \* "null", "open" or "destroyed"; "open" after init(window)
  sent,            \* the messages the last step sent to the renderer
  now,             \* the clock Date.now() reads
  last,            \* the last call handled: op, path, result
  firstOld,        \* history: path -> << oldContent when the pending change was created >>
  hist,            \* history, where switched on: the call handled before the last
                   \* one and the paths that had a snapshot before the last one
  dOld,      \* diff specification: the old text handed to generateDiff
  dNew,      \* diff specification: the new text handed to generateDiff
  dHunks,    \* diff specification: the hunk list returned
  dDone      \* diff specification: generateDiff has returned

dvars == << dOld, dNew, dHunks, dDone >>
mvars == << disk, fileSnapshots, pendingChanges, fileWatchers, events,
            mainWindow, sent, now, last, firstOld, hist >>
vars == << disk, fileSnapshots, pendingChanges, fileWatchers, events,
           mainWindow, sent, now, last, firstOld, hist, dOld, dNew, dHunks, dDone >>

\* --------------------------------------------------------- Map operations
\* fileSnapshots: a function whose domain is the set of keys
Has(m, k) == k \in DOMAIN m
Put(m, k, v) == [x \in (DOMAIN m) \cup {k} |-> IF x = k THEN v ELSE m[x]]
Remove(m, k) == [x \in (DOMAIN m) \ {k} |-> m[x]]
EmptyMap == [x \in {} |-> << >>]

\* pendingChanges: entries in insertion order
PHas(m, k) == \E i \in 1..Len(m) : m[i].key = k
PGet(m, k) == m[CHOOSE i \in 1..Len(m) : m[i].key = k].value
PSet(m, k, v) ==
  IF PHas(m, k)
    THEN [i \in 1..Len(m) |-> IF m[i].key = k THEN [key |-> k, value |-> v] ELSE m[i]]
    ELSE Append(m, [key |-> k, value |-> v])
PDelete(m, k) == SelectSeq(m, LAMBDA e : e.key # k)
PValues(m) == [i \in 1..Len(m) |-> m[i].value]

\* Array.prototype.sort((a, b) => b.timestamp - a.timestamp), stable
RECURSIVE InsertByTimestamp(_, _)
InsertByTimestamp(sorted, c) ==
  IF sorted = << >> THEN << c >>
  ELSE IF Head(sorted).timestamp >= c.timestamp
    THEN << Head(sorted) >> \o InsertByTimestamp(Tail(sorted), c)
    ELSE << c >> \o sorted

RECURSIVE SortByTimestamp(_, _)
SortByTimestamp(cs, sorted) ==
  IF cs = << >> THEN sorted
  ELSE SortByTimestamp(Tail(cs), InsertByTimestamp(sorted, Head(cs)))

getPendingChanges == SortByTimestamp(PValues(pendingChanges), << >>)

\* ------------------------------------------------------------- bookkeeping
Ok == [success |-> TRUE, error |-> ""]
Fail(msg) == [success |-> FALSE, error |-> msg]

Call(op, path, ret) == [op |-> op, path |-> path, ret |-> ret]

\* what an environment step leaves in `last`
Env == Call("env", << >>, Ok)

\* a write into a watched directory queues a 'change' event for the file
Queue(filePath) ==
  events \cup { Relative(root, filePath) :
                  root \in { r \in fileWatchers : Under(r, filePath) } }

\* the history variable follows the pending map: set when an entry appears for
\* a path that had none, dropped when the entry goes
TrackFirstOld ==
  firstOld' = [p \in FilePaths |->
                 IF ~PHas(pendingChanges', p) THEN << >>
                 ELSE IF ~PHas(pendingChanges, p)
                   THEN << PGet(pendingChanges', p).oldContent >>
                   ELSE firstOld[p]]

\* the history of the calls: switched off, and at the start when switched on
NoHistory == [on |-> FALSE, op |-> "env", path |-> << >>, ret |-> Ok, tracked |-> {}]
History == [NoHistory EXCEPT !.on = TRUE]

\* where the history is switched on, hist' describes the state the step left
TrackHist ==
  hist' = IF hist.on
            THEN [on |-> TRUE, op |-> last.op, path |-> last.path, ret |-> last.ret,
                  tracked |-> DOMAIN fileSnapshots]
            ELSE hist

\* what every step of the file tracker does besides its own effect
Frame == TrackFirstOld /\ TrackHist /\ UNCHANGED dvars

\* ------------------------------------------------------------------- Init
Init ==
  /\ disk = [p \in FilePaths |-> << "a" >>]
  /\ fileSnapshots = EmptyMap
  /\ pendingChanges = << >>
  /\ fileWatchers = {}
  /\ events = {}
  /\ mainWindow = "open"
  /\ sent = << >>
  /\ now = 0
  /\ last = Env
  /\ firstOld = [p \in FilePaths |-> << >>]
  /\ hist = NoHistory
  /\ dOld = << >> /\ dNew = << >> /\ dHunks = << >> /\ dDone = FALSE

\* --------------------------------------------------------- file watching
\* stopWatching(): close and forget every watcher; a closed watcher delivers
\* no further event
stopWatching ==
  /\ fileWatchers' = {}
  /\ events' = {}

\* the content handleFileChange stores in a new pending entry
Change(filePath, oldContent, newContent) ==
  [path |-> filePath, filename |-> Basename(filePath),
   oldContent |-> oldContent, newContent |-> newContent,
   diff |-> generateDiff(oldContent, newContent), timestamp |-> now]

\* Notify that sends without looking at the window
NotifyAnyWindow(filePath) ==
  << [channel |-> "file-changed", path |-> filePath,
      filename |-> Basename(filePath), hasChanges |-> TRUE] >>

\* mainWindow.webContents.send(IPC.FILE_CHANGED, {...}) when the window is usable
Notify(filePath) ==
  IF mainWindow = "open"
    THEN << [channel |-> "file-changed", path |-> filePath,
             filename |-> Basename(filePath), hasChanges |-> TRUE] >>
    ELSE << >>

\* Readable that does not look at the size of the file
ReadableAnySize(filePath, io) ==
  /\ Has(disk, filePath)
  /\ io = ""

\* Readable that takes a failed stat or read for an empty read
ReadableAnyIo(filePath, io) ==
  /\ Has(disk, filePath)
  /\ ~(FileSize(disk[filePath]) > MaxFileSize)

\* stat and read succeed, the file is no larger than the limit
Readable(filePath, io) ==
  /\ Has(disk, filePath)
  /\ ~(FileSize(disk[filePath]) > MaxFileSize)
  /\ io = ""

\* handleFileChange that takes a missing snapshot for the empty text
handleFileChangeNoBaseline(filePath, io) ==
  IF ~Readable(filePath, io)
    THEN /\ UNCHANGED << fileSnapshots, pendingChanges >>
         /\ sent' = << >>
    ELSE LET newContent == disk[filePath]
             oldContent == IF Has(fileSnapshots, filePath)
                             THEN fileSnapshots[filePath] ELSE << >>
         IN  /\ IF oldContent # newContent
                  THEN /\ pendingChanges' =
                            PSet(pendingChanges, filePath,
                                 Change(filePath, oldContent, newContent))
                       /\ sent' = Notify(filePath)
                  ELSE /\ UNCHANGED pendingChanges
                       /\ sent' = << >>
             /\ fileSnapshots' = Put(fileSnapshots, filePath, newContent)

\* handleFileChange that stores the snapshot on the first sighting only
handleFileChangeKeepSnapshot(filePath, io) ==
  IF ~Readable(filePath, io)
    THEN /\ UNCHANGED << fileSnapshots, pendingChanges >>
         /\ sent' = << >>
    ELSE LET newContent == disk[filePath]
         IN  IF Has(fileSnapshots, filePath)
               THEN /\ IF fileSnapshots[filePath] # newContent
                         THEN /\ pendingChanges' =
                                   PSet(pendingChanges, filePath,
                                        Change(filePath, fileSnapshots[filePath], newContent))
                              /\ sent' = Notify(filePath)
                         ELSE /\ UNCHANGED pendingChanges
                              /\ sent' = << >>
                    /\ UNCHANGED fileSnapshots
               ELSE /\ UNCHANGED pendingChanges
                    /\ sent' = << >>
                    /\ fileSnapshots' = Put(fileSnapshots, filePath, newContent)

\* handleFileChange(filePath); io is the error of statSync / readFileSync, if any
handleFileChange(filePath, io) ==
  IF ~Readable(filePath, io)
    THEN /\ UNCHANGED << fileSnapshots, pendingChanges >>
         /\ sent' = << >>
    ELSE LET newContent == disk[filePath]
         IN  /\ IF Has(fileSnapshots, filePath) /\ fileSnapshots[filePath] # newContent
                  THEN /\ pendingChanges' =
                            PSet(pendingChanges, filePath,
                                 Change(filePath, fileSnapshots[filePath], newContent))
                       /\ sent' = Notify(filePath)
                  ELSE /\ UNCHANGED pendingChanges
                       /\ sent' = << >>
             /\ fileSnapshots' = Put(fileSnapshots, filePath, newContent)

\* WatchEvent without the shouldIgnoreFile(filename) test
WatchEventNoFilter(filename, io) ==
  /\ filename \in events
  /\ events' = events \ { filename }
  /\ \E projectPath \in fileWatchers :
     LET filePath == PathJoin(projectPath, filename)
     IN  /\ IF Has(disk, filePath)
              THEN handleFileChange(filePath, io)
              ELSE /\ UNCHANGED << fileSnapshots, pendingChanges >>
                   /\ sent' = << >>
         /\ last' = Call("change", filePath,
                         IF Readable(filePath, io) THEN Ok ELSE Fail("dropped"))
  /\ UNCHANGED << disk, fileWatchers, mainWindow, now >>
  /\ Frame

\* the fs.watch callback for a queued 'change' event; projectPath is the
\* directory the watcher was registered for
WatchEvent(filename, io) ==
  /\ filename \in events
  /\ events' = events \ { filename }
  /\ \E projectPath \in fileWatchers :
     LET filePath == PathJoin(projectPath, filename)
     IN  /\ IF ~shouldIgnoreFile(filename) /\ Has(disk, filePath)
              THEN handleFileChange(filePath, io)
              ELSE /\ UNCHANGED << fileSnapshots, pendingChanges >>
                   /\ sent' = << >>
         /\ last' = Call("change", filePath,
                         IF ~shouldIgnoreFile(filename) /\ Readable(filePath, io)
                           THEN Ok ELSE Fail("dropped"))
  /\ UNCHANGED << disk, fileWatchers, mainWindow, now >>
  /\ Frame

\* snapshotFile(filePath): the snapshot store afterwards
snapshotFile(m, filePath, io) ==
  IF Has(disk, filePath) /\ io = "" THEN Put(m, filePath, disk[filePath]) ELSE m

\* the SNAPSHOT_FILE handler
SnapshotFile(filePath, io) ==
  /\ fileSnapshots' = snapshotFile(fileSnapshots, filePath, io)
  /\ sent' = << >>
  /\ last' = Call("snapshotFile", filePath,
                  IF Has(disk, filePath) /\ io = "" THEN Ok ELSE Fail(""))
  /\ UNCHANGED << disk, pendingChanges, fileWatchers, events, mainWindow, now >>
  /\ Frame

\* the entry names on the way from a directory to the file `name` in it
RECURSIVE Components(_)
Components(name) ==
  IF \A i \in 1..Len(name) : name[i] # Sep THEN << name >>
  ELSE LET i == CHOOSE n \in 1..Len(name) :
                  name[n] = Sep /\ \A k \in 1..(n - 1) : name[k] # Sep
       IN  << SubSeq(name, 1, i - 1) >> \o Components(SubSeq(name, i + 1, Len(name)))

\* `if (depth > 5) return`: the deepest directory level snapshotDirectory reads
MaxDepth == 5

\* the files snapshotDirectory(dirPath) reaches: every entry name on the way
\* passes shouldIgnoreFile(entry.name), and the file lies at most MaxDepth
\* directories below dirPath
ScannedFiles(dirPath) ==
  { f \in DOMAIN disk :
      /\ Under(dirPath, f)
      /\ LET names == Components(Relative(dirPath, f))
         IN  /\ Len(names) - 1 <= MaxDepth
             /\ \A i \in 1..Len(names) : ~shouldIgnoreFile(names[i]) }

\* snapshotDirectory(dirPath): snapshotFile for every file reached (every read
\* of the scan succeeds)
snapshotDirectory(m, dirPath) ==
  [f \in (DOMAIN m) \cup ScannedFiles(dirPath) |->
     IF f \in ScannedFiles(dirPath) THEN disk[f] ELSE m[f]]

\* watchProject that registers the new watcher without stopWatching() first
watchProjectNoStop(projectPath, watchErr) ==
  /\ events' = events
  /\ fileWatchers' =
       IF projectPath # << >> /\ projectPath \in Directories /\ watchErr = ""
         THEN fileWatchers \cup { projectPath }
         ELSE fileWatchers

\* watchProject(projectPath): stopWatching(), then fs.watch and
\* fileWatchers.set unless the path is empty, the directory is missing or
\* fs.watch throws; watchErr is the error fs.watch throws, if any
watchProject(projectPath, watchErr) ==
  /\ events' = {}
  /\ fileWatchers' =
       IF projectPath # << >> /\ projectPath \in Directories /\ watchErr = ""
         THEN { projectPath }
         ELSE {}

\* the WATCH_PROJECT handler: watchProject(projectPath), then
\* snapshotDirectory(projectPath); the handler replies nothing
WatchProject(projectPath, watchErr) ==
  /\ watchProject(projectPath, watchErr)
  /\ fileSnapshots' = snapshotDirectory(fileSnapshots, projectPath)
  /\ sent' = << >>
  /\ last' = Call("watchProject", projectPath, Ok)
  /\ UNCHANGED << disk, pendingChanges, mainWindow, now >>
  /\ Frame

\* stopWatching() called by the application
StopWatching ==
  /\ stopWatching
  /\ sent' = << >>
  /\ last' = Env
  /\ UNCHANGED << disk, fileSnapshots, pendingChanges, mainWindow, now >>
  /\ Frame

\* ------------------------------------------------------- accept and revert
\* the two Maps after acceptChanges(filePath), given the two Maps m before
Accepted(m, filePath) ==
  IF PHas(m.pendingChanges, filePath)
    THEN [fileSnapshots |->
            Put(m.fileSnapshots, filePath, PGet(m.pendingChanges, filePath).newContent),
          pendingChanges |-> PDelete(m.pendingChanges, filePath)]
    ELSE m

\* acceptChanges that drops every pending change
acceptChangesDropAll(filePath) ==
  /\ IF PHas(pendingChanges, filePath)
       THEN /\ fileSnapshots' =
                 Put(fileSnapshots, filePath, PGet(pendingChanges, filePath).newContent)
            /\ pendingChanges' = << >>
            /\ last' = Call("acceptChanges", filePath, Ok)
       ELSE /\ UNCHANGED << fileSnapshots, pendingChanges >>
            /\ last' = Call("acceptChanges", filePath,
                            Fail("No pending changes for file"))
  /\ sent' = << >>
  /\ UNCHANGED << disk, fileWatchers, events, mainWindow, now >>
  /\ Frame

acceptChanges(filePath) ==
  /\ LET after == Accepted([fileSnapshots |-> fileSnapshots,
                            pendingChanges |-> pendingChanges], filePath)
     IN  /\ fileSnapshots' = after.fileSnapshots
         /\ pendingChanges' = after.pendingChanges
  /\ last' = Call("acceptChanges", filePath,
                  IF PHas(pendingChanges, filePath)
                    THEN Ok ELSE Fail("No pending changes for file"))
  /\ sent' = << >>
  /\ UNCHANGED << disk, fileWatchers, events, mainWindow, now >>
  /\ Frame

\* revertChanges that resets the snapshot and deletes the entry before writing
revertChangesEager(filePath, io) ==
  /\ IF PHas(pendingChanges, filePath)
       THEN LET change == PGet(pendingChanges, filePath)
            IN  /\ fileSnapshots' = Put(fileSnapshots, filePath, change.oldContent)
                /\ pendingChanges' = PDelete(pendingChanges, filePath)
                /\ IF io = ""
                     THEN /\ disk' = Put(disk, filePath, change.oldContent)
                          /\ events' = Queue(filePath)
                          /\ last' = Call("revertChanges", filePath, Ok)
                     ELSE /\ UNCHANGED << disk, events >>
                          /\ last' = Call("revertChanges", filePath, Fail(io))
       ELSE /\ UNCHANGED << disk, events, fileSnapshots, pendingChanges >>
            /\ last' = Call("revertChanges", filePath,
                            Fail("No pending changes for file"))
  /\ sent' = << >>
  /\ UNCHANGED << fileWatchers, mainWindow, now >>
  /\ Frame

\* revertChanges that writes the file but leaves the snapshot as it is
revertChangesKeepSnapshot(filePath, io) ==
  /\ IF PHas(pendingChanges, filePath)
       THEN LET change == PGet(pendingChanges, filePath)
            IN  IF io = ""
                  THEN /\ disk' = Put(disk, filePath, change.oldContent)
                       /\ events' = Queue(filePath)
                       /\ UNCHANGED fileSnapshots
                       /\ pendingChanges' = PDelete(pendingChanges, filePath)
                       /\ last' = Call("revertChanges", filePath, Ok)
                  ELSE /\ UNCHANGED << disk, events, fileSnapshots, pendingChanges >>
                       /\ last' = Call("revertChanges", filePath, Fail(io))
       ELSE /\ UNCHANGED << disk, events, fileSnapshots, pendingChanges >>
            /\ last' = Call("revertChanges", filePath,
                            Fail("No pending changes for file"))
  /\ sent' = << >>
  /\ UNCHANGED << fileWatchers, mainWindow, now >>
  /\ Frame

\* revertChanges(filePath); io is the error fs.writeFileSync throws, if any
revertChanges(filePath, io) ==
  /\ IF PHas(pendingChanges, filePath)
       THEN LET change == PGet(pendingChanges, filePath)
            IN  IF io = ""
                  THEN /\ disk' = Put(disk, filePath, change.oldContent)
                       /\ events' = Queue(filePath)
                       /\ fileSnapshots' = Put(fileSnapshots, filePath, change.oldContent)
                       /\ pendingChanges' = PDelete(pendingChanges, filePath)
                       /\ last' = Call("revertChanges", filePath, Ok)
                  ELSE /\ UNCHANGED << disk, events, fileSnapshots, pendingChanges >>
                       /\ last' = Call("revertChanges", filePath, Fail(io))
       ELSE /\ UNCHANGED << disk, events, fileSnapshots, pendingChanges >>
            /\ last' = Call("revertChanges", filePath,
                            Fail("No pending changes for file"))
  /\ sent' = << >>
  /\ UNCHANGED << fileWatchers, mainWindow, now >>
  /\ Frame

\* String.prototype.replace(pat, ''): the first occurrence of pat is removed
ReplaceFirst(s, pat) ==
  IF ~Contains(s, pat) THEN s
  ELSE LET i == CHOOSE n \in 1..(Len(s) + 1) :
                  MatchAt(s, pat, n) /\ \A k \in 1..(n - 1) : ~MatchAt(s, pat, k)
       IN  SubSeq(s, 1, i - 1) \o SubSeq(s, i + Len(pat), Len(s))

\* for (const line of removedLines) newContent = newContent.replace(line + '\n', '')
RECURSIVE RemoveLines(_, _)
RemoveLines(content, removedLines) ==
  IF removedLines = << >> THEN content
  ELSE RemoveLines(ReplaceFirst(content, Head(removedLines) \o << NL >>),
                   Tail(removedLines))

\* change.diff[hunkIndex] is a hunk (hunkIndex is 0-based)
HunkExists(filePath, hunkIndex) ==
  /\ PHas(pendingChanges, filePath)
  /\ hunkIndex + 1 \in 1..Len(PGet(pendingChanges, filePath).diff)

\* RevertHunkAt that updates the entry even when the new diff is empty
RevertHunkAtKeepEmpty(filePath, hunkIndex, io) ==
  LET change == PGet(pendingChanges, filePath)
      hunk == change.diff[hunkIndex + 1]
      removedLines == Contents(SelectSeq(hunk.lines, LAMBDA l : l.type = "add"))
      newContent == RemoveLines(change.newContent, removedLines)
      newDiff == generateDiff(change.oldContent, newContent)
  IN  IF io = ""
        THEN /\ disk' = Put(disk, filePath, newContent)
             /\ events' = Queue(filePath)
             /\ pendingChanges' =
                  PSet(pendingChanges, filePath,
                       [change EXCEPT !.newContent = newContent, !.diff = newDiff])
             /\ last' = Call("revertHunk", filePath, Ok)
        ELSE /\ UNCHANGED << disk, events, pendingChanges >>
             /\ last' = Call("revertHunk", filePath, Fail(io))

\* the effect of revertHunk on the hunk numbered hunkIndex (0-based)
RevertHunkAt(filePath, hunkIndex, io) ==
  LET change == PGet(pendingChanges, filePath)
      hunk == change.diff[hunkIndex + 1]
      removedLines == Contents(SelectSeq(hunk.lines, LAMBDA l : l.type = "add"))
      newContent == RemoveLines(change.newContent, removedLines)
      newDiff == generateDiff(change.oldContent, newContent)
  IN  IF io = ""
        THEN /\ disk' = Put(disk, filePath, newContent)
             /\ events' = Queue(filePath)
             /\ pendingChanges' =
                  IF Len(newDiff) = 0
                    THEN PDelete(pendingChanges, filePath)
                    ELSE PSet(pendingChanges, filePath,
                              [change EXCEPT !.newContent = newContent,
                                             !.diff = newDiff])
             /\ last' = Call("revertHunk", filePath, Ok)
        ELSE /\ UNCHANGED << disk, events, pendingChanges >>
             /\ last' = Call("revertHunk", filePath, Fail(io))

\* revertHunk that takes hunkIndex as 1-based: change.diff[hunkIndex - 1]
revertHunkOneBased(filePath, hunkIndex, io) ==
  /\ IF ~HunkExists(filePath, hunkIndex - 1)
       THEN /\ UNCHANGED << disk, events, pendingChanges >>
            /\ last' = Call("revertHunk", filePath, Fail("Hunk not found"))
       ELSE RevertHunkAt(filePath, hunkIndex - 1, io)
  /\ sent' = << >>
  /\ UNCHANGED << fileSnapshots, fileWatchers, mainWindow, now >>
  /\ Frame

\* revertHunk(filePath, hunkIndex); io is the error fs.writeFileSync throws, if any
revertHunk(filePath, hunkIndex, io) ==
  /\ IF ~HunkExists(filePath, hunkIndex)
       THEN /\ UNCHANGED << disk, events, pendingChanges >>
            /\ last' = Call("revertHunk", filePath, Fail("Hunk not found"))
       ELSE RevertHunkAt(filePath, hunkIndex, io)
  /\ sent' = << >>
  /\ UNCHANGED << fileSnapshots, fileWatchers, mainWindow, now >>
  /\ Frame

\* for (const [filePath, change] of pendingChanges) fileSnapshots.set(...)
RECURSIVE AcceptAll(_, _)
AcceptAll(m, entries) ==
  IF entries = << >> THEN m
  ELSE AcceptAll(Put(m, Head(entries).key, Head(entries).value.newContent), Tail(entries))

\* clearAllChanges that empties the pending map without moving the snapshots
clearAllChangesKeepSnapshots ==
  /\ UNCHANGED fileSnapshots
  /\ pendingChanges' = << >>
  /\ sent' = << >>
  /\ last' = Call("clearAllChanges", << >>, Ok)
  /\ UNCHANGED << disk, fileWatchers, events, mainWindow, now >>
  /\ Frame

clearAllChanges ==
  /\ fileSnapshots' = AcceptAll(fileSnapshots, pendingChanges)
  /\ pendingChanges' = << >>
  /\ sent' = << >>
  /\ last' = Call("clearAllChanges", << >>, Ok)
  /\ UNCHANGED << disk, fileWatchers, events, mainWindow, now >>
  /\ Frame

\* ------------------------------------------------------------ environment
\* an editor (or the assistant) writes a file of the project
ExternalWrite(filePath, content) ==
  /\ disk' = Put(disk, filePath, content)
  /\ events' = Queue(filePath)
  /\ sent' = << >>
  /\ last' = Env
  /\ UNCHANGED << fileSnapshots, pendingChanges, fileWatchers, mainWindow, now >>
  /\ Frame

\* a file of the project is deleted (fs.watch reports 'rename', which the
\* callback does not handle)
ExternalDelete(filePath) ==
  /\ Has(disk, filePath)
  /\ disk' = Remove(disk, filePath)
  /\ sent' = << >>
  /\ last' = Env
  /\ UNCHANGED << fileSnapshots, pendingChanges, fileWatchers, events, mainWindow, now >>
  /\ Frame

\* ------------------------------------------------------ window and clock
\* the clock Date.now() reads moves on
MaxNow == 1

Tick ==
  /\ now < MaxNow
  /\ now' = now + 1
  /\ sent' = << >>
  /\ last' = Env
  /\ UNCHANGED << disk, fileSnapshots, pendingChanges, fileWatchers, events, mainWindow >>
  /\ Frame

\* the user closes the window: the BrowserWindow diffManager holds is destroyed
\* (on macOS the application and its watcher go on)
CloseWindow ==
  /\ mainWindow = "open"
  /\ mainWindow' = "destroyed"
  /\ sent' = << >>
  /\ last' = Env
  /\ UNCHANGED << disk, fileSnapshots, pendingChanges, fileWatchers, events, now >>
  /\ Frame

\* init(window) with the window created on 'activate'
CreateWindow ==
  /\ mainWindow = "destroyed"
  /\ mainWindow' = "open"
  /\ sent' = << >>
  /\ last' = Env
  /\ UNCHANGED << disk, fileSnapshots, pendingChanges, fileWatchers, events, now >>
  /\ Frame

\* the reply of the GET_PENDING_CHANGES handler
Listing(list) == [success |-> TRUE, error |-> "", list |-> list]

\* GetPendingChanges replying the values in the order of the Map
GetPendingChangesUnsorted ==
  /\ last' = Call("getPendingChanges", << >>, Listing(PValues(pendingChanges)))
  /\ sent' = << >>
  /\ UNCHANGED << disk, fileSnapshots, pendingChanges, fileWatchers, events,
                  mainWindow, now >>
  /\ Frame

\* the GET_PENDING_CHANGES handler
GetPendingChanges ==
  /\ last' = Call("getPendingChanges", << >>, Listing(getPendingChanges))
  /\ sent' = << >>
  /\ UNCHANGED << disk, fileSnapshots, pendingChanges, fileWatchers, events,
                  mainWindow, now >>
  /\ Frame

\* --------------------------------------------------------- specifications
ReadErrors == { "", "EACCES: permission denied" }
WriteOutcomes == { "" } \cup WriteErrors
WatchRequests == { ProjectPath, << "q" >>, << >> }

\* the requests and events that concern the files `names` of the directories
\* `roots`, editors writing a text of textsOf[filePath], reads failing with
\* `readErrors`, writes with `writeOutcomes`, fs.watch with `watchOutcomes`,
\* the renderer asking to watch one of `requests`
StepIn(roots, names, textsOf, readErrors, writeOutcomes, watchOutcomes, requests) ==
  \/ \E filename \in names, io \in readErrors : WatchEvent(filename, io)
  \/ \E root \in roots, filename \in names, io \in readErrors :
       SnapshotFile(PathJoin(root, filename), io)
  \/ \E projectPath \in requests, watchErr \in watchOutcomes :
       WatchProject(projectPath, watchErr)
  \/ StopWatching
  \/ \E root \in roots, filename \in names : acceptChanges(PathJoin(root, filename))
  \/ \E root \in roots, filename \in names, io \in writeOutcomes :
       revertChanges(PathJoin(root, filename), io)
  \/ \E root \in roots, filename \in names, hunkIndex \in 0..MaxHunkIndex,
        io \in writeOutcomes :
       revertHunk(PathJoin(root, filename), hunkIndex, io)
  \/ clearAllChanges
  \/ \E root \in roots, filename \in names :
       \E content \in textsOf[PathJoin(root, filename)] :
         ExternalWrite(PathJoin(root, filename), content)
  \/ \E root \in roots, filename \in names : ExternalDelete(PathJoin(root, filename))

\* the same for the files `names` of the project p, every file edited between
\* `texts`, fs.watch failing as writes do
Step(names, texts, readErrors, writeOutcomes) ==
  StepIn({ ProjectPath }, names, [f \in FilePaths |-> texts],
         readErrors, writeOutcomes, writeOutcomes, WatchRequests)

\* two files, each edited between two contents, no read or write fails
Next == Step(FileNames, PairTexts, { "" }, { "" })

Spec == Init /\ [][Next]_vars

\* one file, edited freely, reads and writes may fail
FileNext == Step({ << "f" >> }, FileTexts, ReadErrors, WriteOutcomes)

SpecFile == Init /\ [][FileNext]_vars

\* the state after construction, the disk holding the files of d
StartWith(d) ==
  /\ disk = d
  /\ fileSnapshots = EmptyMap
  /\ pendingChanges = << >>
  /\ fileWatchers = {}
  /\ events = {}
  /\ mainWindow = "open"
  /\ sent = << >>
  /\ now = 0
  /\ last = Env
  /\ firstOld = [p \in FilePaths |-> << >>]
  /\ hist = NoHistory
  /\ dOld = << >> /\ dNew = << >> /\ dHunks = << >> /\ dDone = FALSE

\* ------------------------------------------- files around the size limit
GPath == PathJoin(ProjectPath, << "g" >>)

\* p/g is over the limit from the start and whenever it is edited; p/f is
\* edited between a small text, a text of exactly MaxFileSize bytes and a
\* text one byte larger
SizeTexts ==
  [f \in FilePaths |->
     IF f = GPath THEN { OverLimit, OverLimitEdited }
     ELSE { << "a" >>, AtLimit, OverLimit }]

SizeInit ==
  StartWith([f \in FilePaths |-> IF f = GPath THEN OverLimit ELSE << "a" >>])

SizeNext ==
  StepIn({ ProjectPath }, FileNames, SizeTexts, { "" }, { "" }, { "" }, { ProjectPath })

SpecSize == SizeInit /\ [][SizeNext]_vars

\* ------------------------------------------------- switching the project
\* the file f of each of the two projects
SwitchPaths == { PathJoin(root, << "f" >>) : root \in Directories }

\* error messages of a failing fs.watch; "" is a watch that succeeds
WatchErrors == { "ENOSPC: System limit for number of file watchers reached" }

\* the directories the renderer asks to watch: the two projects, a directory
\* that does not exist and no path
SwitchRequests == Directories \cup { << "q" >>, << >> }

SwitchInit == StartWith([f \in SwitchPaths |-> << "a" >>])

SwitchNext ==
  StepIn(Directories, { << "f" >> }, [f \in SwitchPaths |-> PairTexts],
         { "" }, { "" }, { "" } \cup WatchErrors, SwitchRequests)

SpecSwitch == SwitchInit /\ [][SwitchNext]_vars

\* ------------------------------------------- notifications and timestamps
\* the contents an editor writes while the window comes and goes
NotifyTexts == { << "a" >>, << "b" >>, FrontText }

\* one file, reads may fail, the window is closed and created again, the
\* clock moves on
NotifyNext ==
  \/ StepIn({ ProjectPath }, { << "f" >> }, [f \in FilePaths |-> NotifyTexts],
            ReadErrors, { "" }, { "" }, { ProjectPath })
  \/ Tick
  \/ CloseWindow
  \/ CreateWindow

SpecNotify == Init /\ [][NotifyNext]_vars

\* ------------------------------------------------- listing pending changes
\* the project with its two files is watched; the files are edited between
\* two contents while the clock moves on, their change events are processed,
\* changes are accepted or reverted, and the renderer asks for the list of
\* pending changes
ListNext ==
  \/ WatchProject(ProjectPath, "")
  \/ \E filename \in FileNames, content \in PairTexts :
       ExternalWrite(PathJoin(ProjectPath, filename), content)
  \/ \E filename \in FileNames : WatchEvent(filename, "")
  \/ \E filename \in FileNames : acceptChanges(PathJoin(ProjectPath, filename))
  \/ \E filename \in FileNames : revertChanges(PathJoin(ProjectPath, filename), "")
  \/ clearAllChanges
  \/ Tick
  \/ GetPendingChanges

SpecList == Init /\ [][ListNext]_vars

\* ------------------------------------------------------ the ignore filter
\* a log file, a file in dist/ and a file seven directories deep
LogName == << "x", ".", "l", "o", "g" >>
DistName == << "d", "i", "s", "t", "/", "x" >>
DeepName == << "1", "/", "2", "/", "3", "/", "4", "/", "5", "/", "6", "/", "x" >>

\* the files that are edited
IgnoreNames == { << "f" >>, LogName, DistName }

\* the files of the project
IgnorePaths == { PathJoin(ProjectPath, n) : n \in IgnoreNames \cup { DeepName } }

\* the contents an editor writes to them
IgnoreTexts == { << "a" >>, << "b" >> }

IgnoreInit == StartWith([f \in IgnorePaths |-> << "a" >>])

\* the project is watched and unwatched, its files are edited and snapshotted
\* on request, their change events are delivered, changes are accepted
IgnoreNext ==
  \/ WatchProject(ProjectPath, "")
  \/ StopWatching
  \/ \E filename \in IgnoreNames, content \in IgnoreTexts :
       ExternalWrite(PathJoin(ProjectPath, filename), content)
  \/ \E filename \in IgnoreNames : WatchEvent(filename, "")
  \/ \E filename \in IgnoreNames : SnapshotFile(PathJoin(ProjectPath, filename), "")
  \/ \E filename \in IgnoreNames : acceptChanges(PathJoin(ProjectPath, filename))

SpecIgnore == IgnoreInit /\ [][IgnoreNext]_vars

\* ------------------------------------------------ change events in detail
\* the state after construction with the history switched on
EventsInit ==
  /\ disk = [p \in FilePaths |-> << "a" >>]
  /\ fileSnapshots = EmptyMap
  /\ pendingChanges = << >>
  /\ fileWatchers = {}
  /\ events = {}
  /\ mainWindow = "open"
  /\ sent = << >>
  /\ now = 0
  /\ last = Env
  /\ firstOld = [p \in FilePaths |-> << >>]
  /\ hist = History
  /\ dOld = << >> /\ dNew = << >> /\ dHunks = << >> /\ dDone = FALSE

\* one file, reads may fail, the window is closed and created again
EventsNext ==
  \/ StepIn({ ProjectPath }, { << "f" >> }, [f \in FilePaths |-> NotifyTexts],
            ReadErrors, { "" }, { "" }, { ProjectPath })
  \/ CloseWindow
  \/ CreateWindow

SpecEvents == EventsInit /\ [][EventsNext]_vars

\* ------------------------------------------------- the diff specification
DiffTexts == { Join(ls) : ls \in SeqsOf(DiffLineSet, 1, MaxLines) } \cup EdgeTexts

DiffInit ==
  /\ dOld \in DiffTexts
  /\ dNew \in DiffTexts
  /\ dHunks = << >>
  /\ dDone = FALSE
  /\ disk = [p \in FilePaths |-> << "a" >>]
  /\ fileSnapshots = EmptyMap
  /\ pendingChanges = << >>
  /\ fileWatchers = {}
  /\ events = {}
  /\ mainWindow = "open"
  /\ sent = << >>
  /\ now = 0
  /\ last = Env
  /\ firstOld = [p \in FilePaths |-> << >>]
  /\ hist = NoHistory

RunDiff ==
  /\ ~dDone
  /\ dHunks' = generateDiff(dOld, dNew)
  /\ dDone' = TRUE
  /\ UNCHANGED << dOld, dNew >>
  /\ UNCHANGED mvars

DiffNext == RunDiff

SpecDiff == DiffInit /\ [][DiffNext]_vars

\* ------------------------------------------------- properties of the diff
Removes(h) == SelectSeq(h.lines, LAMBDA l : l.type = "remove")
Adds(h) == SelectSeq(h.lines, LAMBDA l : l.type = "add")

\* Apply hunks to oldLines in order: copy the old lines up to startOld, put the
\* hunk's add lines in place of its remove lines, go on after the removed lines.
RECURSIVE ApplyHunks(_, _, _, _)
ApplyHunks(oldLines, hunks, pos, out) ==
  IF hunks = << >> THEN out \o SubSeq(oldLines, pos, Len(oldLines))
  ELSE LET h == Head(hunks)
       IN  ApplyHunks(oldLines, Tail(hunks), h.startOld + Len(Removes(h)),
                      out \o SubSeq(oldLines, pos, h.startOld - 1) \o Contents(Adds(h)))

\* the remove lines of h are the old lines startOld, startOld + 1, ...
RemovesAtStart(oldLines, h) ==
  /\ h.startOld >= 1
  /\ h.startOld + Len(Removes(h)) - 1 <= Len(oldLines)
  /\ Contents(Removes(h)) = SubSeq(oldLines, h.startOld, h.startOld + Len(Removes(h)) - 1)

\* C1: applying the hunks of generateDiff(a, b) to a in order, each hunk
\* replacing its remove lines (which sit at startOld) by its add lines,
\* reconstructs exactly b.
C1_Reconstructs ==
  dDone =>
    /\ \A k \in 1..Len(dHunks) : RemovesAtStart(Split(dOld), dHunks[k])
    /\ Join(ApplyHunks(Split(dOld), dHunks, 1, << >>)) = dNew

\* a diff with two hunks has been applied and gives the new text
C1_Witness ==
  /\ dDone
  /\ Len(dHunks) >= 2
  /\ Len(Removes(dHunks[1])) > 0 /\ Len(Adds(dHunks[2])) > 0
  /\ Join(ApplyHunks(Split(dOld), dHunks, 1, << >>)) = dNew

\* C7: generateDiff(a, a) is the empty hunk list for every text a.
C7_SelfDiffEmpty ==
  (dDone /\ dOld = dNew) => dHunks = << >>

\* a text with a repeated line, and the empty text, diffed against themselves
C7_Witness ==
  /\ dDone /\ dOld = dNew /\ dHunks = << >>
  /\ \/ dOld = << >>
     \/ Len(Split(dOld)) = 3 /\ Split(dOld)[1] = Split(dOld)[3]

\* new is old with exactly line k replaced by a different line
ReplacedAt(oldLines, newLines, k) ==
  /\ Len(oldLines) = Len(newLines)
  /\ k \in 1..Len(oldLines)
  /\ oldLines[k] # newLines[k]
  /\ \A i \in 1..Len(oldLines) : i # k => oldLines[i] = newLines[i]

\* the one hunk that replaces line k
ReplaceHunk(oldLines, newLines, k) ==
  [startOld |-> k, startNew |-> k,
   lines |-> << [type |-> "remove", content |-> oldLines[k], lineNum |-> k],
                [type |-> "add", content |-> newLines[k], lineNum |-> k] >>]

\* C8 as stated: whenever new is old with line k replaced, generateDiff
\* returns the single hunk at (k, k) with [remove old k, add new k].
C8_Original ==
  dDone =>
    \A k \in 1..Len(Split(dOld)) :
      ReplacedAt(Split(dOld), Split(dNew), k)
        => dHunks = << ReplaceHunk(Split(dOld), Split(dNew), k) >>

\* C8 (amended): when new is old with line k replaced by a different line and
\* line k of old is the first line or differs from line k - 1 of old,
\* generateDiff returns the single hunk at (k, k) with [remove old k, add new k].
C8_ReplaceLine ==
  dDone =>
    \A k \in 1..Len(Split(dOld)) :
      ( /\ ReplacedAt(Split(dOld), Split(dNew), k)
        /\ (k = 1 \/ Split(dOld)[k] # Split(dOld)[k - 1]) )
        => dHunks = << ReplaceHunk(Split(dOld), Split(dNew), k) >>

\* the scenario old = a,b,c / new = a,x,c
C8_Witness ==
  /\ dDone
  /\ dOld = << "a", NL, "b", NL, "c" >>
  /\ dNew = << "a", NL, "x", NL, "c" >>
  /\ dHunks = << [startOld |-> 2, startNew |-> 2,
                  lines |-> << [type |-> "remove", content |-> << "b" >>, lineNum |-> 2],
                               [type |-> "add", content |-> << "x" >>, lineNum |-> 2] >>] >>

\* new is old with one line appended
Appended(oldLines, newLines) ==
  /\ Len(newLines) = Len(oldLines) + 1
  /\ SubSeq(newLines, 1, Len(oldLines)) = oldLines

\* the one hunk that appends the last line of newLines
AppendHunk(newLines) ==
  [startOld |-> Len(newLines), startNew |-> Len(newLines),
   lines |-> << [type |-> "add", content |-> newLines[Len(newLines)],
                 lineNum |-> Len(newLines)] >>]

\* C9 as stated: whenever new is old plus one appended line, generateDiff
\* returns the single hunk at (n + 1, n + 1) holding that one add line.
C9_Original ==
  (dDone /\ Appended(Split(dOld), Split(dNew)))
    => dHunks = << AppendHunk(Split(dNew)) >>

\* C9 (amended): when new is old (n lines) plus one appended line that differs
\* from the last line of old, generateDiff returns the single hunk at
\* (n + 1, n + 1) holding one add line (lineNum n + 1) and no remove line.
C9_AppendLine ==
  ( /\ dDone
    /\ Appended(Split(dOld), Split(dNew))
    /\ Split(dNew)[Len(Split(dNew))] # Split(dOld)[Len(Split(dOld))] )
    => dHunks = << AppendHunk(Split(dNew)) >>

\* the scenario old = a,b / new = a,b,c
C9_Witness ==
  /\ dDone
  /\ dOld = << "a", NL, "b" >>
  /\ dNew = << "a", NL, "b", NL, "c" >>
  /\ dHunks = << [startOld |-> 3, startNew |-> 3,
                  lines |-> << [type |-> "add", content |-> << "c" >>, lineNum |-> 3] >>] >>

\* number of lines of the given type in the first n hunks
RECURSIVE CountBefore(_, _, _)
CountBefore(hunks, n, type) ==
  IF n = 0 THEN 0
  ELSE CountBefore(hunks, n - 1, type)
       + Len(SelectSeq(hunks[n].lines, LAMBDA l : l.type = type))

\* C10: every remove line carries the old line numbered lineNum, every add
\* line the new line numbered lineNum (1-based, own side); the remove lines of
\* a hunk are numbered startOld, startOld + 1, ... and its add lines startNew,
\* startNew + 1, ...; and startOld, startNew are the 1-based positions where
\* the hunk begins: the same number of unchanged lines precedes both.
C10_LineNumbers ==
  dDone =>
    LET oldLines == Split(dOld)
        newLines == Split(dNew)
    IN  \A k \in 1..Len(dHunks) :
          LET h == dHunks[k]
              rem == Removes(h)
              add == Adds(h)
          IN  /\ \A i \in 1..Len(rem) :
                   /\ rem[i].lineNum = h.startOld + i - 1
                   /\ rem[i].lineNum \in 1..Len(oldLines)
                   /\ rem[i].content = oldLines[rem[i].lineNum]
              /\ \A i \in 1..Len(add) :
                   /\ add[i].lineNum = h.startNew + i - 1
                   /\ add[i].lineNum \in 1..Len(newLines)
                   /\ add[i].content = newLines[add[i].lineNum]
              /\ h.startOld \in 1..(Len(oldLines) + 1)
              /\ h.startNew \in 1..(Len(newLines) + 1)
              /\ h.startOld - 1 - CountBefore(dHunks, k - 1, "remove")
                   = h.startNew - 1 - CountBefore(dHunks, k - 1, "add")

\* a second hunk that starts at different positions on the two sides and
\* holds both remove and add lines
C10_Witness ==
  /\ dDone
  /\ Len(dHunks) = 2
  /\ dHunks[2].startOld # dHunks[2].startNew
  /\ Len(Removes(dHunks[2])) > 0 /\ Len(Adds(dHunks[2])) > 0

\* ------------------------------------- properties of accept and revert
FPath == PathJoin(ProjectPath, << "f" >>)

\* the paths getPendingChanges() lists, given the pending map
Listed(m) ==
  LET list == SortByTimestamp(PValues(m), << >>)
  IN  { list[i].path : i \in 1..Len(list) }

\* C2 as stated: after revertChanges(path) succeeds, the file on disk and the
\* snapshot hold the oldContent captured when the pending change for path was
\* first created, and getPendingChanges() no longer lists path.
C2_RevertRestoresFirst ==
  [][ (last'.op = "revertChanges" /\ last'.ret.success /\ revertChanges(last'.path, ""))
        => /\ disk'[last'.path] = firstOld[last'.path][1]
           /\ fileSnapshots'[last'.path] = firstOld[last'.path][1]
           /\ last'.path \notin Listed(pendingChanges') ]_vars

\* C3 as stated: a change event for a path that already has a pending change
\* leaves the entry's oldContent as it was (the baseline captured when the
\* entry was first created); only the snapshot follows the content read.
C3_OldContentKept ==
  [][ ( /\ last'.op = "change"
        /\ \E n \in FileNames, io \in ReadErrors :
             last'.path = PathJoin(ProjectPath, n) /\ WatchEvent(n, io)
        /\ PHas(pendingChanges, last'.path) )
        => /\ PHas(pendingChanges', last'.path)
           /\ PGet(pendingChanges', last'.path).oldContent
                = PGet(pendingChanges, last'.path).oldContent
           /\ PGet(pendingChanges', last'.path).oldContent = firstOld[last'.path][1]
           /\ last'.ret.success => fileSnapshots'[last'.path] = disk[last'.path] ]_vars

\* C4: acceptChanges(path) on a path with a pending change sets the snapshot
\* of path to the change's newContent, deletes the pending entry, returns
\* success and writes nothing to disk; the snapshots and pending entries of
\* all other paths stay as they are.
C4_AcceptFrame ==
  [][ ( /\ last'.op = "acceptChanges"
        /\ PHas(pendingChanges, last'.path)
        /\ acceptChanges(last'.path) )
        => LET p == last'.path
           IN  /\ Has(fileSnapshots', p)
               /\ fileSnapshots'[p] = PGet(pendingChanges, p).newContent
               /\ ~PHas(pendingChanges', p)
               /\ last'.ret = Ok
               /\ disk' = disk
               /\ events' = events
               /\ \A q \in FilePaths \ { p } :
                    /\ Has(fileSnapshots', q) = Has(fileSnapshots, q)
                    /\ Has(fileSnapshots, q) => fileSnapshots'[q] = fileSnapshots[q]
                    /\ PHas(pendingChanges', q) = PHas(pendingChanges, q)
                    /\ PHas(pendingChanges, q)
                         => PGet(pendingChanges', q) = PGet(pendingChanges, q) ]_vars

\* a change was accepted while another path has a pending change and a snapshot
C4_Witness ==
  /\ last.op = "acceptChanges"
  /\ last.ret.success
  /\ ~PHas(pendingChanges, last.path)
  /\ \E q \in FilePaths \ { last.path } :
       PHas(pendingChanges, q) /\ Has(fileSnapshots, q)

\* C5: acceptChanges and revertChanges for a path without a pending change,
\* and revertHunk for a path without a pending change or with a hunk index
\* that does not exist, return a failure and leave the snapshot store, the
\* pending map and the disk as they are.
C5_NotFound ==
  [][ ( \/ /\ last'.op = "acceptChanges"
           /\ ~PHas(pendingChanges, last'.path)
           /\ acceptChanges(last'.path)
        \/ /\ last'.op = "revertChanges"
           /\ ~PHas(pendingChanges, last'.path)
           /\ \E io \in WriteOutcomes : revertChanges(last'.path, io)
        \/ /\ last'.op = "revertHunk"
           /\ \E hunkIndex \in 0..MaxHunkIndex, io \in WriteOutcomes :
                ~HunkExists(last'.path, hunkIndex) /\ revertHunk(last'.path, hunkIndex, io) )
        => /\ ~last'.ret.success
           /\ fileSnapshots' = fileSnapshots
           /\ pendingChanges' = pendingChanges
           /\ disk' = disk ]_vars

\* revertHunk was refused for a hunk index the pending change does not have
C5_Witness ==
  /\ last.op = "revertHunk"
  /\ last.ret = Fail("Hunk not found")
  /\ PHas(pendingChanges, last.path)

\* C6: when the disk write inside revertChanges(path) fails, the call returns
\* a failure carrying the error message, the pending change for path stays as
\* it is and the snapshot store is not modified.
C6_RevertWriteFails ==
  [][ \A io \in WriteErrors :
        ( /\ last'.op = "revertChanges"
          /\ PHas(pendingChanges, last'.path)
          /\ revertChanges(last'.path, io) )
          => /\ last'.ret = Fail(io)
             /\ PHas(pendingChanges', last'.path)
             /\ PGet(pendingChanges', last'.path) = PGet(pendingChanges, last'.path)
             /\ pendingChanges' = pendingChanges
             /\ fileSnapshots' = fileSnapshots ]_vars

\* a revert failed on its write and the pending change is still there
C6_Witness ==
  /\ last.op = "revertChanges"
  /\ last.ret.error \in WriteErrors
  /\ PHas(pendingChanges, last.path)
  /\ Has(fileSnapshots, last.path)
  /\ fileSnapshots[last.path] # PGet(pendingChanges, last.path).oldContent

\* ------------------------------------------- the hunks as maximal runs
\* the 1-based old (new) line numbers of the match list
MatchedOld(lcs) == { lcs[i].oldIdx + 1 : i \in 1..Len(lcs) }
MatchedNew(lcs) == { lcs[i].newIdx + 1 : i \in 1..Len(lcs) }

\* the old (new) line numbers a hunk spans
OldSpan(h) == h.startOld..(h.startOld + Len(Removes(h)) - 1)
NewSpan(h) == h.startNew..(h.startNew + Len(Adds(h)) - 1)

\* C11: in the hunk list generateDiff returns, no hunk is empty; no line of a
\* hunk, and no line its span covers, belongs to the match list; startOld and
\* startNew ascend strictly from hunk to hunk; between two consecutive hunks
\* lies a matched pair of lines; and every hunk is a maximal run: the pair of
\* lines right before it is a match (or it begins both texts), and every line
\* outside the match list is in a hunk.
C11_HunkRuns ==
  dDone =>
    LET oldLines == Split(dOld)
        newLines == Split(dNew)
        lcs == computeLCS(oldLines, newLines)
    IN  /\ \A k \in 1..Len(dHunks) :
             LET h == dHunks[k]
             IN  /\ Len(h.lines) > 0
                 /\ \A i \in 1..Len(h.lines) :
                      IF h.lines[i].type = "remove"
                        THEN h.lines[i].lineNum \notin MatchedOld(lcs)
                        ELSE h.lines[i].lineNum \notin MatchedNew(lcs)
                 /\ OldSpan(h) \cap MatchedOld(lcs) = {}
                 /\ NewSpan(h) \cap MatchedNew(lcs) = {}
                 /\ \/ h.startOld = 1 /\ h.startNew = 1
                    \/ \E i \in 1..Len(lcs) :
                         lcs[i].oldIdx + 2 = h.startOld /\ lcs[i].newIdx + 2 = h.startNew
        /\ \A k \in 1..(Len(dHunks) - 1) :
             LET h == dHunks[k]
                 g == dHunks[k + 1]
             IN  /\ h.startOld < g.startOld
                 /\ h.startNew < g.startNew
                 /\ \E i \in 1..Len(lcs) :
                      /\ h.startOld + Len(Removes(h)) <= lcs[i].oldIdx + 1
                      /\ lcs[i].oldIdx + 1 < g.startOld
                      /\ h.startNew + Len(Adds(h)) <= lcs[i].newIdx + 1
                      /\ lcs[i].newIdx + 1 < g.startNew
        /\ \A n \in (1..Len(oldLines)) \ MatchedOld(lcs) :
             \E k \in 1..Len(dHunks) : n \in OldSpan(dHunks[k])
        /\ \A n \in (1..Len(newLines)) \ MatchedNew(lcs) :
             \E k \in 1..Len(dHunks) : n \in NewSpan(dHunks[k])

\* two hunks with one matched line between them, the second hunk ending the
\* texts after the last match
C11_Witness ==
  /\ dDone
  /\ Len(dHunks) = 2
  /\ dHunks[2].startOld = dHunks[1].startOld + Len(Removes(dHunks[1])) + 1
  /\ Len(computeLCS(Split(dOld), Split(dNew))) = 1
  /\ Len(Removes(dHunks[1])) > 0 /\ Len(Adds(dHunks[1])) > 0

\* ------------------------------------------- the size of the snapshot store
\* a capacity of the snapshot store that is below the number of files of the
\* project (the code names no capacity: snapshotFile, snapshotDirectory and
\* handleFileChange call fileSnapshots.set unconditionally)
TrackedFilesLimit == Cardinality(FileNames) - 1

\* C12 as stated: in every reachable state the snapshot store holds at most
\* the capacity's number of entries, whatever watch, scan, snapshotFile and
\* change events came before.
C12_SnapshotsBounded ==
  Cardinality(DOMAIN fileSnapshots) <= TrackedFilesLimit

\* ------------------------------------------------ files over the size limit
\* C13 as stated: the snapshot store never holds the content of a file larger
\* than MaxFileSize, whether it was captured by a directory scan, by a
\* snapshotFile request or by a change event.
C13_NoLargeSnapshot ==
  \A f \in DOMAIN fileSnapshots : FileSize(fileSnapshots[f]) <= MaxFileSize

\* C14: a change event for a file that is larger than MaxFileSize when the
\* event is processed changes neither the pending map nor the snapshot store
\* nor the disk and sends nothing; a file that is over the limit whenever it
\* exists (p/g) is never listed by getPendingChanges(); and a change event for
\* a file of exactly MaxFileSize bytes whose snapshot differs is tracked: the
\* file gets a pending change with the content read, and the snapshot follows.
C14_LargeFileDiscarded ==
  /\ [](GPath \notin Listed(pendingChanges))
  /\ [][ (last'.op = "change" /\ Has(disk, last'.path))
           => LET f == last'.path
              IN  /\ FileSize(disk[f]) > MaxFileSize
                       => /\ pendingChanges' = pendingChanges
                          /\ fileSnapshots' = fileSnapshots
                          /\ disk' = disk
                          /\ fileWatchers' = fileWatchers
                          /\ sent' = << >>
                  /\ ( /\ FileSize(disk[f]) = MaxFileSize
                       /\ Has(fileSnapshots, f)
                       /\ fileSnapshots[f] # disk[f] )
                       => /\ PHas(pendingChanges', f)
                          /\ PGet(pendingChanges', f).newContent = disk[f]
                          /\ fileSnapshots'[f] = disk[f] ]_vars

\* the change event of the edited, snapshotted, oversized p/g was dropped
\* while p/f, edited to exactly MaxFileSize bytes, has its pending change
C14_Witness ==
  /\ last.op = "change" /\ last.path = GPath /\ ~last.ret.success
  /\ Has(disk, GPath) /\ FileSize(disk[GPath]) > MaxFileSize
  /\ Has(fileSnapshots, GPath) /\ fileSnapshots[GPath] # disk[GPath]
  /\ PHas(pendingChanges, FPath)
  /\ PGet(pendingChanges, FPath).newContent = AtLimit

\* ------------------------------------------------------ the watched project
\* C15: at most one directory watcher is registered in every reachable state,
\* and after a watchProject call the watcher registered before it is gone: the
\* only watcher, if any, is the one of the directory just requested.
C15_OneWatcher ==
  /\ Cardinality(fileWatchers) <= 1
  /\ last.op = "watchProject" => fileWatchers \subseteq { last.path }

\* the project r is watched after the project p was: a change of p/f, seen
\* while p was watched, is still pending
C15_Witness ==
  /\ last.op = "watchProject"
  /\ fileWatchers = { OtherProject }
  /\ PHas(pendingChanges, PathJoin(ProjectPath, << "f" >>))

\* C16 as stated: when a watchProject request switches from a watched project
\* to Watching(root), the snapshot store is cleared before the scan of root,
\* so afterwards it holds exactly the files the scan of root captured, and no
\* entry captured under the project watched before.
C16_ClearedOnSwitch ==
  [][ ( /\ last'.op = "watchProject"
        /\ last'.path \in fileWatchers'
        /\ fileWatchers # {}
        /\ last'.path \notin fileWatchers )
        => /\ DOMAIN fileSnapshots' = ScannedFiles(last'.path)
           /\ \A prev \in fileWatchers, f \in DOMAIN fileSnapshots' : ~Under(prev, f) ]_vars

\* C17 as stated: a watch request that fails (no path, a directory that does
\* not exist, or fs.watch throwing) leaves the watchers, the snapshot store
\* and the pending map as they were and replies an error.
C17_FailedWatchNoEffect ==
  [][ (last'.op = "watchProject" /\ last'.path \notin fileWatchers')
        => /\ fileWatchers' = fileWatchers
           /\ fileSnapshots' = fileSnapshots
           /\ pendingChanges' = pendingChanges
           /\ ~last'.ret.success ]_vars

\* ------------------------------------------------- change events recorded
\* the notification {path, filename, hasChanges: true} for filePath
ChangeNotification(filePath) ==
  [channel |-> "file-changed", path |-> filePath,
   filename |-> Basename(filePath), hasChanges |-> TRUE]

\* what a processed change event for `f` does to the pending map: with a
\* snapshot that differs from the content read, the entry of f is created or
\* replaced by {path, filename, oldContent: the snapshot, newContent: the
\* content read, diff: generateDiff(oldContent, newContent), timestamp: the
\* clock}; with a snapshot that equals the content, or none, nothing
PendingAfterEvent(f) ==
  IF Has(fileSnapshots, f) /\ fileSnapshots[f] # disk[f]
    THEN /\ PHas(pendingChanges', f)
         /\ PGet(pendingChanges', f) =
              [path |-> f, filename |-> Basename(f),
               oldContent |-> fileSnapshots[f], newContent |-> disk[f],
               diff |-> generateDiff(fileSnapshots[f], disk[f]),
               timestamp |-> now]
         /\ PDelete(pendingChanges', f) = PDelete(pendingChanges, f)
    ELSE pendingChanges' = pendingChanges

\* C18 as stated: a processed change event that finds a snapshot differing
\* from the content read creates or replaces the pending change of the path
\* and emits exactly one change notification; with content equal to the
\* snapshot it changes no pending change and emits nothing.
C18_Original ==
  [][ (last'.op = "change" /\ last'.ret.success /\ Has(fileSnapshots, last'.path))
        => /\ PendingAfterEvent(last'.path)
           /\ sent' = IF fileSnapshots[last'.path] # disk[last'.path]
                        THEN << ChangeNotification(last'.path) >>
                        ELSE << >> ]_vars

\* C18 (amended): a processed change event that finds a snapshot differing
\* from the content read creates or replaces the pending change of the path
\* and emits exactly one change notification if the main window exists and is
\* not destroyed, none if it is destroyed; with content equal to the snapshot
\* it changes no pending change and emits nothing.
C18_ChangeRecorded ==
  [][ (last'.op = "change" /\ last'.ret.success /\ Has(fileSnapshots, last'.path))
        => /\ PendingAfterEvent(last'.path)
           /\ sent' = IF fileSnapshots[last'.path] # disk[last'.path]
                           /\ mainWindow = "open"
                        THEN << ChangeNotification(last'.path) >>
                        ELSE << >> ]_vars

\* a change event replaced a pending change at a later time while the window
\* was destroyed: the entry is there, nothing was sent
C18_Witness ==
  /\ last.op = "change" /\ last.ret.success
  /\ mainWindow = "destroyed"
  /\ PHas(pendingChanges, last.path)
  /\ PGet(pendingChanges, last.path).newContent = disk[last.path]
  /\ PGet(pendingChanges, last.path).timestamp = now /\ now > 0
  /\ fileSnapshots[last.path] = disk[last.path]
  /\ Len(PGet(pendingChanges, last.path).diff) > 0
  /\ sent = << >>

\* ---------------------------------------------- the list of pending changes
\* list holds each value of the pending map m once, and nothing else
SameEntries(list, m) ==
  /\ Len(list) = Len(m)
  /\ \A i \in 1..Len(m) : \E j \in 1..Len(list) : list[j] = m[i].value
  /\ \A i, j \in 1..Len(list) : list[i].path = list[j].path => i = j

\* C19: getPendingChanges() replies exactly the entries of the pending map,
\* one per path, each entry's timestamp not below that of the entry after it,
\* and leaves the pending map and the snapshot store as they are.
C19_ListedNewestFirst ==
  [][ last'.op = "getPendingChanges"
        => LET list == last'.ret.list
           IN  /\ SameEntries(list, pendingChanges)
               /\ \A i \in 1..(Len(list) - 1) : list[i].timestamp >= list[i + 1].timestamp
               /\ pendingChanges' = pendingChanges
               /\ fileSnapshots' = fileSnapshots ]_vars

\* two pending changes were listed, the one recorded later (second in the
\* Map) first
C19_Witness ==
  /\ last.op = "getPendingChanges"
  /\ Len(last.ret.list) = 2
  /\ Len(pendingChanges) = 2
  /\ pendingChanges[1].value.timestamp < pendingChanges[2].value.timestamp
  /\ last.ret.list[1] = pendingChanges[2].value

\* --------------------------------------------------------- accepting all
\* acceptChanges called for each path of order, one after the other
RECURSIVE AcceptEach(_, _)
AcceptEach(m, order) ==
  IF order = << >> THEN m
  ELSE AcceptEach(Accepted(m, Head(order)), Tail(order))

\* the orders in which the paths of the pending map can be accepted
Orders(m) ==
  { o \in [1..Len(m) -> { m[i].key : i \in 1..Len(m) }] :
      \A i, j \in 1..Len(m) : o[i] = o[j] => i = j }

\* C20: clearAllChanges() leaves the pending map empty and the snapshot of
\* every path that was pending equal to the newContent of its change, writes
\* nothing to disk (and so queues no change event), and leaves both Maps as
\* acceptChanges called once for each pending path leaves them, in any order.
C20_ClearAllIsAcceptEach ==
  [][ last'.op = "clearAllChanges"
        => /\ pendingChanges' = << >>
           /\ \A i \in 1..Len(pendingChanges) :
                /\ Has(fileSnapshots', pendingChanges[i].key)
                /\ fileSnapshots'[pendingChanges[i].key] = pendingChanges[i].value.newContent
           /\ disk' = disk
           /\ events' = events
           /\ \A order \in Orders(pendingChanges) :
                AcceptEach([fileSnapshots |-> fileSnapshots,
                            pendingChanges |-> pendingChanges], order)
                  = [fileSnapshots |-> fileSnapshots', pendingChanges |-> pendingChanges'] ]_vars

\* after clearAllChanges no change is pending and both files, edited on disk,
\* have the edited content as their snapshot
C20_Witness ==
  /\ last.op = "clearAllChanges"
  /\ pendingChanges = << >>
  /\ \A f \in FilePaths :
       /\ Has(disk, f) /\ disk[f] = FrontText
       /\ Has(fileSnapshots, f) /\ fileSnapshots[f] = FrontText

\* ------------------------------------------------------ reverting one hunk
\* the contents of the add lines of the hunk numbered hunkIndex (0-based) of
\* the pending change of filePath
AddedTexts(filePath, hunkIndex) ==
  Contents(Adds(PGet(pendingChanges, filePath).diff[hunkIndex + 1]))

\* C21 as stated: a revertHunk(path, hunkIndex) that succeeds on an existing
\* hunk writes the current on-disk content of the file with the text of every
\* add line of the hunk deleted from it, and recomputes the diff against the
\* oldContent of the pending change: with an empty diff the pending change is
\* deleted, otherwise the entry is updated in place with the written content
\* and the recomputed diff, its oldContent unchanged.
C21_RevertHunkFromDisk ==
  [][ ( /\ last'.op = "revertHunk"
        /\ last'.ret.success
        /\ Has(disk, last'.path) )
        => LET f == last'.path
               change == PGet(pendingChanges, f)
           IN  \E hunkIndex \in 0..MaxHunkIndex :
                 /\ HunkExists(f, hunkIndex)
                 /\ disk'[f] = RemoveLines(disk[f], AddedTexts(f, hunkIndex))
                 /\ IF generateDiff(change.oldContent, disk'[f]) = << >>
                      THEN ~PHas(pendingChanges', f)
                      ELSE /\ PHas(pendingChanges', f)
                           /\ PGet(pendingChanges', f) =
                                [change EXCEPT
                                   !.newContent = disk'[f],
                                   !.diff = generateDiff(change.oldContent, disk'[f])] ]_vars

\* ------------------------------------------------------ the ignore filter
\* C22 as stated: when a watchProject request starts watching root, its scan
\* captures a snapshot of a file under root only if the watcher does not
\* discard the change events of the file's relative path, and leaves a file
\* under root without a snapshot only if the watcher discards them.
C22_ScanMatchesWatcher ==
  [][ (last'.op = "watchProject" /\ last'.path \in fileWatchers')
        => \A f \in DOMAIN disk :
             Under(last'.path, f)
               => /\ (Has(fileSnapshots', f) /\ ~Has(fileSnapshots, f))
                       => ~shouldIgnoreFile(Relative(last'.path, f))
                  /\ ~Has(fileSnapshots', f)
                       => shouldIgnoreFile(Relative(last'.path, f)) ]_vars

\* C25: a change event whose relative path shouldIgnoreFile rejects is
\* discarded: the snapshot store and the pending map stay as they are and
\* nothing is sent, whether or not the file has a snapshot that differs from
\* its content.
C25_IgnoredEventDiscarded ==
  [][ ( /\ last'.op = "change"
        /\ \E root \in fileWatchers :
             Under(root, last'.path) /\ shouldIgnoreFile(Relative(root, last'.path)) )
        => /\ fileSnapshots' = fileSnapshots
           /\ pendingChanges' = pendingChanges
           /\ sent' = << >>
           /\ disk' = disk ]_vars

\* the change event of the edited file dist/x, which has a snapshot of its
\* former content, was discarded
C25_Witness ==
  /\ last.op = "change"
  /\ last.path = PathJoin(ProjectPath, DistName)
  /\ ~last.ret.success
  /\ Has(fileSnapshots, last.path)
  /\ fileSnapshots[last.path] # disk[last.path]
  /\ ~PHas(pendingChanges, last.path)

\* ------------------------------------------------ change events in detail
\* C23: a processed change event for a path without a snapshot stores the
\* content read as the snapshot of the path, leaves the pending map as it is,
\* with no entry for the path, and sends nothing.
C23_FirstSighting ==
  [][ ( /\ last'.op = "change"
        /\ last'.ret.success
        /\ ~Has(fileSnapshots, last'.path) )
        => /\ Has(fileSnapshots', last'.path)
           /\ fileSnapshots'[last'.path] = disk[last'.path]
           /\ pendingChanges' = pendingChanges
           /\ ~PHas(pendingChanges', last'.path)
           /\ sent' = << >> ]_vars

\* a change event was processed, with the window open, for a file that had no
\* snapshot before and has one now
C23_Witness ==
  /\ last.op = "change" /\ last.ret.success
  /\ last.path \notin hist.tracked
  /\ Has(fileSnapshots, last.path)
  /\ fileSnapshots[last.path] = FrontText
  /\ ~PHas(pendingChanges, last.path)
  /\ mainWindow = "open"
  /\ sent = << >>

\* C24: after a change event that is processed to completion (path not
\* ignored, file exists, size within the limit, stat and read succeed) the
\* snapshot of the path is the content read, whether the path had a snapshot
\* or not and whether it differed or not.
C24_SnapshotFollows ==
  [][ (last'.op = "change" /\ last'.ret.success)
        => /\ Has(fileSnapshots', last'.path)
           /\ fileSnapshots'[last'.path] = disk[last'.path] ]_vars

\* a change event found a snapshot that differed: the change is pending and
\* the snapshot is the content read
C24_Witness ==
  /\ last.op = "change" /\ last.ret.success
  /\ last.path \in hist.tracked
  /\ PHas(pendingChanges, last.path)
  /\ PGet(pendingChanges, last.path).newContent = disk[last.path]
  /\ PGet(pendingChanges, last.path).oldContent # disk[last.path]
  /\ fileSnapshots[last.path] = disk[last.path]

\* C26: a change event during which stat or read of the file fails, or whose
\* file no longer exists, is dropped: the snapshot store and the pending map
\* stay exactly as they are and nothing is sent.
C26_ReadFailureDropped ==
  [][ ( /\ last'.op = "change"
        /\ \/ ~Has(disk, last'.path)
           \/ \E n \in FileNames, io \in ReadErrors \ { "" } :
                last'.path = PathJoin(ProjectPath, n) /\ WatchEvent(n, io) )
        => /\ fileSnapshots' = fileSnapshots
           /\ pendingChanges' = pendingChanges
           /\ sent' = << >>
           /\ ~last'.ret.success ]_vars

\* the change event of an existing file whose snapshot differs from its
\* content was dropped: its read failed
C26_Witness ==
  /\ last.op = "change" /\ ~last.ret.success
  /\ Has(disk, last.path)
  /\ FileSize(disk[last.path]) <= MaxFileSize
  /\ ~shouldIgnoreFile(Relative(ProjectPath, last.path))
  /\ Has(fileSnapshots, last.path)
  /\ fileSnapshots[last.path] # disk[last.path]
  /\ ~PHas(pendingChanges, last.path)

\* C28 as stated: when the change event of the file is processed right after
\* a revertHunk(path, i) that succeeded, the outcome of revertHunk stays: a
\* pending change that revertHunk deleted does not come back, and one that it
\* updated keeps its oldContent.
C28_RevertHunkOutcomeKept ==
  [][ ( /\ last.op = "revertHunk" /\ last.ret.success
        /\ last'.op = "change" /\ last'.path = last.path /\ last'.ret.success )
        => IF PHas(pendingChanges, last.path)
             THEN /\ PHas(pendingChanges', last.path)
                  /\ PGet(pendingChanges', last.path).oldContent
                       = PGet(pendingChanges, last.path).oldContent
             ELSE ~PHas(pendingChanges', last.path) ]_vars

\* C29: when the change event of the file is processed right after a
\* revertChanges(path) that succeeded, no pending change is created for the
\* path and nothing is sent.
C29_RevertEventSilent ==
  [][ ( /\ last.op = "revertChanges" /\ last.ret.success
        /\ last'.op = "change" /\ last'.path = last.path )
        => /\ ~PHas(pendingChanges', last.path)
           /\ pendingChanges' = pendingChanges
           /\ sent' = << >> ]_vars

\* the change event of a revertChanges write was processed with the window
\* open: the restored content is on disk and in the snapshot, nothing pending
C29_Witness ==
  /\ last.op = "change" /\ last.ret.success
  /\ hist.op = "revertChanges" /\ hist.ret.success /\ hist.path = last.path
  /\ fileSnapshots[last.path] = disk[last.path]
  /\ ~PHas(pendingChanges, last.path)
  /\ mainWindow = "open"
  /\ sent = << >>

\* ------------------------------------------------ the pending map's entries
\* C27: in every reachable state every entry of the pending map is keyed by
\* its own path, no two entries share a key, and the entry's oldContent and
\* newContent differ, its diff is not empty, and its diff is
\* generateDiff(oldContent, newContent).
C27_PendingEntries ==
  /\ \A i \in 1..Len(pendingChanges) :
       LET change == pendingChanges[i].value
       IN  /\ pendingChanges[i].key = change.path
           /\ change.oldContent # change.newContent
           /\ Len(change.diff) > 0
           /\ change.diff = generateDiff(change.oldContent, change.newContent)
  /\ \A i, j \in 1..Len(pendingChanges) :
       pendingChanges[i].key = pendingChanges[j].key => i = j

\* a revertHunk that succeeded left the pending change of the file in place,
\* updated to the content it wrote
C27_Witness ==
  /\ last.op = "revertHunk" /\ last.ret.success
  /\ PHas(pendingChanges, last.path)
  /\ PGet(pendingChanges, last.path).newContent = disk[last.path]
  /\ fileSnapshots[last.path] # disk[last.path]

\* ------------------------------------------------------- the match list
\* the length of a longest common subsequence of two sequences of lines
RECURSIVE LongestCommon(_, _)
LongestCommon(a, b) ==
  IF a = << >> \/ b = << >> THEN 0
  ELSE IF Head(a) = Head(b) THEN 1 + LongestCommon(Tail(a), Tail(b))
  ELSE Max(LongestCommon(Tail(a), b), LongestCommon(a, Tail(b)))

\* C30: the match list computeLCS(old, new) returns ascends strictly in
\* oldIdx and in newIdx, pairs only lines of equal content, and is as long as
\* a longest common subsequence of the two line lists; and the hunks of
\* generateDiff hold |old| - LCS remove lines and |new| - LCS add lines.
C30_MatchList ==
  dDone =>
    LET oldLines == Split(dOld)
        newLines == Split(dNew)
        lcs == computeLCS(oldLines, newLines)
    IN  /\ \A i \in 1..(Len(lcs) - 1) :
             /\ lcs[i].oldIdx < lcs[i + 1].oldIdx
             /\ lcs[i].newIdx < lcs[i + 1].newIdx
        /\ \A i \in 1..Len(lcs) :
             /\ lcs[i].oldIdx \in 0..(Len(oldLines) - 1)
             /\ lcs[i].newIdx \in 0..(Len(newLines) - 1)
             /\ oldLines[lcs[i].oldIdx + 1] = newLines[lcs[i].newIdx + 1]
        /\ Len(lcs) = LongestCommon(oldLines, newLines)
        /\ CountBefore(dHunks, Len(dHunks), "remove") = Len(oldLines) - Len(lcs)
        /\ CountBefore(dHunks, Len(dHunks), "add") = Len(newLines) - Len(lcs)

\* two matches that are not neighbours on either side, with removed and added
\* lines in the diff
C30_Witness ==
  /\ dDone
  /\ LET lcs == computeLCS(Split(dOld), Split(dNew))
     IN  /\ Len(lcs) = 2
         /\ lcs[2].oldIdx > lcs[1].oldIdx + 1
         /\ lcs[2].newIdx > lcs[1].newIdx + 1
  /\ CountBefore(dHunks, Len(dHunks), "remove") > 0
  /\ CountBefore(dHunks, Len(dHunks), "add") > 0

====
